---- MODULE Spec2Model ----
(***************************************************************************)
(* Option momentum alerts: the check cycle (app.py run_check), the alert   *)
(* storage helpers (persist_alert, was_alert_sent_recent), the signal      *)
(* rule (detect_momentum_signal), the sender (send_telegram_message) and   *)
(* the RSI indicator (indicators.py rsi).                                  *)
(*                                                                         *)
(* Time is counted in ticks; TicksPerMinute ticks make one minute, so one  *)
(* tick is SecondsPerMinute \div TicksPerMinute seconds.                   *)
(***************************************************************************)
EXTENDS Integers, Sequences, FiniteSets, TLC

VARIABLES
    store,      \* content of ALERTS_FILE (alerts_sent.json)
    clock,      \* datetime.now(timezone.utc), in ticks
    cooldown,   \* alert_minutes_lockout (minutes)
    creds,      \* cfg holds telegram_bot_token and telegram_chat_id
    symbols,    \* the watch list of the running cycle
    results,    \* run_check's results list
    status,     \* "idle" | "running" | "returned" | "raised"
    last,       \* what the last loop iteration of run_check did
    prevAlert,  \* per symbol: time of the delivered alert before lastAlert
    lastAlert,  \* per symbol: time of the last delivered alert
    frame,      \* input of a direct detect_momentum_signal call
    report,     \* its result
    series,     \* input of a direct rsi call (close prices)
    rsiOut,     \* its result
    wpc,        \* per writer: position inside persist_alert
    wsym,       \* per writer: symbol argument
    wts,        \* per writer: ts argument
    wdata,      \* per writer: the local `data` dict
    overlap,    \* two persist_alert calls have overlapped
    seen        \* result of the last concurrent was_alert_sent_recent

vars == <<store, clock, cooldown, creds, symbols, results, status, last,
          prevAlert, lastAlert, frame, report, series, rsiOut,
          wpc, wsym, wts, wdata, overlap, seen>>

orchVars == <<cooldown, creds, symbols, results, status, last, prevAlert, lastAlert>>
detectVars == <<frame, report>>
rsiVars == <<series, rsiOut>>
concVars == <<wpc, wsym, wts, wdata, overlap, seen>>

----------------------------------------------------------------------------
(* Bounds *)

MaxClock == 5
TicksPerMinute == 2
MaxCooldown == 1
MaxLen == 4
MaxPrice == 3

(* Program constants *)

SecondsPerMinute == 60
MinBars == 30
RsiBurst == 55
RsiLength == 5

Symbols == {"A", "B"}
None == 0 - 1

SecondsPerTick == SecondsPerMinute \div TicksPerMinute

----------------------------------------------------------------------------
(* Values stored in the alert file.  A JSON value is missing, not          *)
(* parseable ("garbage"), a number/null/boolean ("scalar"), a list or a    *)
(* string ("array": supports `in`, not indexing by a str), or an object.   *)
(* A value of the object is an ISO timestamp string or anything else       *)
(* (another string, or not a string): fromisoformat raises on it.          *)

Iso(wall, tz) == [k |-> "iso", wall |-> wall, tz |-> tz]
NotIso == [k |-> "notiso", wall |-> 0, tz |-> "naive"]

EmptyMap == [s \in {} |-> NotIso]

Absent == [kind |-> "absent", has |-> {}, map |-> EmptyMap]
Garbage == [kind |-> "garbage", has |-> {}, map |-> EmptyMap]
Scalar == [kind |-> "scalar", has |-> {}, map |-> EmptyMap]
Array(S) == [kind |-> "array", has |-> S, map |-> EmptyMap]
Object(m) == [kind |-> "object", has |-> {}, map |-> m]

(* datetime: an aware or naive wall-clock reading *)
Aware(t) == [wall |-> t, tz |-> "utc"]

(* datetime.isoformat(): the wall clock and the offset, as a string *)
IsoFormat(dt) == Iso(dt.wall, dt.tz)

(* datetime.fromisoformat(): raises on a non-string or a non-ISO string *)
FromIsoFormat(v) ==
    IF v.k = "iso" THEN [raised |-> FALSE, wall |-> v.wall, tz |-> v.tz]
    ELSE [raised |-> TRUE, wall |-> 0, tz |-> "naive"]

(* last_ts.replace(tzinfo=timezone.utc): keeps the wall clock *)
ReplaceUtc(dt) == [wall |-> dt.wall, tz |-> "utc"]

(* The outcome of a call: a returned value or a raised exception *)
Ret(v) == [raised |-> FALSE, val |-> v]
Raise == [raised |-> TRUE, val |-> FALSE]

\* diff.total_seconds() <= minutes * 60, with `<` instead of `<=`
WithinCooldownStrict(now, ts, minutes) ==
    (now - ts) * SecondsPerTick < minutes * SecondsPerMinute

\* diff.total_seconds() <= minutes * 60, dropping the * 60
WithinCooldownNoScale(now, ts, minutes) ==
    (now - ts) * SecondsPerTick <= minutes

WithinCooldown(now, ts, minutes) ==
    (now - ts) * SecondsPerTick <= minutes * SecondsPerMinute

WasAlertSentRecent(st, symbol, minutes, now) ==
    CASE st.kind = "absent" -> Ret(FALSE)
      [] st.kind = "garbage" -> Ret(FALSE)
      [] st.kind = "scalar" -> Raise
      [] st.kind = "array" -> IF symbol \notin st.has THEN Ret(FALSE) ELSE Raise
      [] st.kind = "object" ->
            IF symbol \notin DOMAIN st.map THEN Ret(FALSE)
            ELSE LET parsed == FromIsoFormat(st.map[symbol])
                 IN  IF parsed.raised THEN Raise
                     ELSE Ret(WithinCooldown(now, ReplaceUtc(parsed).wall, minutes))


\* persist_alert's load that forgets the records already stored
PersistLoadFresh(st) == Object(EmptyMap)

(* persist_alert, lines 32-38: the local `data` after the load *)
PersistLoad(st) ==
    IF st.kind \in {"absent", "garbage"} THEN Object(EmptyMap) ELSE st

Put(m, symbol, v) ==
    [s \in DOMAIN m \cup {symbol} |-> IF s = symbol THEN v ELSE m[s]]

(* persist_alert, lines 39-41: data[symbol] = ts raises unless data is a   *)
(* dict; otherwise the whole file is rewritten from data                   *)
PersistStore(data, symbol, ts) ==
    IF data.kind = "object" THEN Ret(Object(Put(data.map, symbol, ts)))
    ELSE Raise

PersistAlert(st, symbol, ts) ==
    LET r == PersistStore(PersistLoad(st), symbol, ts)
    IN  [raised |-> r.raised, store |-> IF r.raised THEN st ELSE r.val]

----------------------------------------------------------------------------
(* telegram_alerts.py *)

NetOutcomes == {"200", "non200", "exception"}

SendTelegramMessage(hasCreds, net) ==
    IF ~hasCreds THEN Raise
    ELSE IF net = "200" THEN Ret(TRUE) ELSE Ret(FALSE)

----------------------------------------------------------------------------
(* Floats: a number or not-a-number.  Every comparison with NaN is false.  *)

F(v) == [nan |-> FALSE, v |-> v]
NaN == [nan |-> TRUE, v |-> 0]

FGt(a, b) == ~a.nan /\ ~b.nan /\ a.v > b.v
FLe(a, b) == ~a.nan /\ ~b.nan /\ a.v <= b.v
Times(a, k) == IF a.nan THEN NaN ELSE F(a.v * k)

(* indicators.py volume_spike: volume > baseline * 1.5 (both sides * 2) *)
VolumeSpike(volume, baseline) == FGt(Times(volume, 2), Times(baseline, 3))

(* indicators.py compute_all: atr14 > atr14_ma * 1.2 (both sides * 5) *)
AtrSpike(atr14, atr14ma) == FGt(Times(atr14, 5), Times(atr14ma, 6))

(* One row of the indicator frame, from the row's base columns *)
ComputeAll(row) ==
    [ema9 |-> row.ema9, ema21 |-> row.ema21, rsi5 |-> row.rsi5,
     close |-> row.close,
     atr_spike |-> AtrSpike(row.atr14, row.atr14_ma),
     vol_spike |-> VolumeSpike(row.volume, row.vol_ma)]

EmptyReport ==
    [kind |-> "empty", signal |-> FALSE, ema_cross |-> FALSE, rsi5 |-> NaN,
     vol_spike |-> FALSE, atr_spike |-> FALSE, close |-> NaN]

\* len(df) <= 30 instead of len(df) < 30
InsufficientOffByOne(df) == df.bars = None \/ df.bars <= MinBars

(* detect_momentum_signal, line 91 *)
Insufficient(df) == df.bars = None \/ df.bars < MinBars

\* the final boolean without the ATR condition
CompositeNoAtr(ema_cross, price_above_emas, rsi_burst, vol_spike, atr_spike) ==
    (ema_cross \/ price_above_emas) /\ rsi_burst /\ vol_spike

(* detect_momentum_signal, line 105 *)
Composite(ema_cross, price_above_emas, rsi_burst, vol_spike, atr_spike) ==
    (ema_cross \/ price_above_emas) /\ rsi_burst /\ vol_spike /\ atr_spike

DetectMomentumSignal(df) ==
    IF Insufficient(df) THEN EmptyReport
    ELSE LET l == ComputeAll(df.last)
             p == ComputeAll(df.prev)
             ema_cross == FGt(l.ema9, l.ema21) /\ FLe(p.ema9, p.ema21)
             rsi_burst == FGt(l.rsi5, F(RsiBurst))
             vol_spike == (l.vol_spike = TRUE)
             atr_spike == (l.atr_spike = TRUE)
             price_above_emas == FGt(l.close, l.ema9) /\ FGt(l.close, l.ema21)
         IN  [kind |-> "report",
              signal |-> Composite(ema_cross, price_above_emas, rsi_burst,
                                   vol_spike, atr_spike),
              ema_cross |-> ema_cross, rsi5 |-> l.rsi5,
              vol_spike |-> vol_spike, atr_spike |-> atr_spike,
              close |-> l.close]

----------------------------------------------------------------------------
(* run_check *)

NoLast ==
    [symbol |-> "", fetch |-> "none", bars |-> None, detect |-> "none",
     signal |-> FALSE, lookup |-> "none", attempted |-> FALSE,
     sendRaised |-> FALSE, sendVal |-> FALSE, persistCalled |-> FALSE,
     persistRaised |-> FALSE, storeBefore |-> Absent,
     nowCheck |-> 0, nowPersist |-> 0]

ErrorEntry(symbol) == [symbol |-> symbol, kind |-> "error", sig |-> EmptyReport]
SigEntry(symbol, sig) == [symbol |-> symbol, kind |-> sig.kind, sig |-> sig]

\* the cooldown lookup is ignored
ShouldAttemptAlways(signal, recent) == signal

(* lines 149-150: if sig.get("signal", False): if not was_alert_sent_recent *)
ShouldAttempt(signal, recent) == signal /\ ~recent

\* an exception of the sender counts as a delivery
SentAfterSendRaiseTrue(r) == IF r.raised THEN TRUE ELSE r.val

(* lines 159-164: sent after the try/except around the send *)
SentAfterSend(r) == IF r.raised THEN FALSE ELSE r.val

(* One iteration of the loop, lines 139-169.  fetchOk/df: what             *)
(* fetch_candles does; net: what the HTTP post does; now: the clock at the *)
(* cooldown lookup; d: ticks that pass until persist_alert reads the clock *)
Iterate(st, symbol, fetchOk, df, net, hasCreds, minutes, now, d) ==
    IF ~fetchOk
    THEN [entry |-> ErrorEntry(symbol), store |-> st, escaped |-> FALSE,
          delivered |-> FALSE,
          info |-> [NoLast EXCEPT !.symbol = symbol, !.fetch = "error",
                                  !.storeBefore = st, !.nowCheck = now,
                                  !.nowPersist = now]]
    ELSE
    LET sig == DetectMomentumSignal(df)
        base == [NoLast EXCEPT !.symbol = symbol, !.fetch = "ok",
                               !.bars = df.bars, !.detect = sig.kind,
                               !.signal = sig.signal, !.storeBefore = st,
                               !.nowCheck = now, !.nowPersist = now]
        look == IF sig.signal THEN WasAlertSentRecent(st, symbol, minutes, now)
                ELSE Ret(FALSE)
    IN
    IF ~sig.signal
    THEN [entry |-> SigEntry(symbol, sig), store |-> st, escaped |-> FALSE,
          delivered |-> FALSE, info |-> base]
    ELSE IF look.raised
    THEN [entry |-> SigEntry(symbol, sig), store |-> st, escaped |-> TRUE,
          delivered |-> FALSE, info |-> [base EXCEPT !.lookup = "raise"]]
    ELSE IF ~ShouldAttempt(sig.signal, look.val)
    THEN [entry |-> SigEntry(symbol, sig), store |-> st, escaped |-> FALSE,
          delivered |-> FALSE,
          info |-> [base EXCEPT !.lookup = IF look.val THEN "true" ELSE "false"]]
    ELSE
    LET r == SendTelegramMessage(hasCreds, net)
        sent == SentAfterSend(r)
        ts == IsoFormat(Aware(now + d))
        p == IF sent THEN PersistAlert(st, symbol, ts)
             ELSE [raised |-> FALSE, store |-> st]
    IN  [entry |-> SigEntry(symbol, sig), store |-> p.store,
         escaped |-> p.raised, delivered |-> sent,
         info |-> [base EXCEPT !.lookup = IF look.val THEN "true" ELSE "false",
                               !.attempted = TRUE,
                               !.sendRaised = r.raised, !.sendVal = r.val,
                               !.persistCalled = sent,
                               !.persistRaised = p.raised,
                               !.nowPersist = now + d]]

(* Candle series offered to the cycle: a bar count (or no frame at all)    *)
(* and the base columns of the last two rows                               *)
BaseRow(e9, e21, rsi, close, vol, volma, atr, atrma) ==
    [ema9 |-> e9, ema21 |-> e21, rsi5 |-> rsi, close |-> close,
     volume |-> vol, vol_ma |-> volma, atr14 |-> atr, atr14_ma |-> atrma]

BreakoutRow == BaseRow(F(2), F(1), F(56), F(3), F(4), F(2), F(7), F(5))
QuietRow == BaseRow(F(1), F(2), F(55), F(1), F(3), F(2), F(6), F(5))

BarCounts == {None, 0, MinBars - 1, MinBars}

CheckFrames ==
    [bars : BarCounts, last : {BreakoutRow, QuietRow}, prev : {QuietRow}]

(* Watch lists typed into the text area, one with a symbol named twice *)
WatchLists == {<<>>, <<"A">>, <<"B", "A">>, <<"A", "A">>}

StartCycle ==
    /\ status \in {"idle", "returned", "raised"}
    /\ symbols' \in WatchLists
    /\ results' = <<>>
    /\ status' = "running"
    /\ last' = NoLast
    /\ UNCHANGED <<store, clock, cooldown, creds, prevAlert, lastAlert>>
    /\ UNCHANGED <<detectVars, rsiVars, concVars>>

ProcessSymbol ==
    /\ status = "running"
    /\ Len(results) < Len(symbols)
    /\ \E fetchOk \in BOOLEAN, df \in CheckFrames, net \in NetOutcomes,
          d \in {0, 1} :
          /\ clock + d <= MaxClock
          /\ LET symbol == symbols[Len(results) + 1]
                 o == Iterate(store, symbol, fetchOk, df, net, creds,
                              cooldown, clock, d)
             IN  /\ results' = Append(results, o.entry)
                 /\ store' = o.store
                 /\ status' = IF o.escaped THEN "raised" ELSE "running"
                 /\ last' = o.info
                 /\ clock' = o.info.nowPersist
                 /\ prevAlert' = IF o.delivered
                                 THEN [prevAlert EXCEPT ![symbol] = lastAlert[symbol]]
                                 ELSE prevAlert
                 /\ lastAlert' = IF o.delivered
                                 THEN [lastAlert EXCEPT ![symbol] = o.info.nowPersist]
                                 ELSE lastAlert
    /\ UNCHANGED <<cooldown, creds, symbols>>
    /\ UNCHANGED <<detectVars, rsiVars, concVars>>

ReturnResults ==
    /\ status = "running"
    /\ Len(results) = Len(symbols)
    /\ status' = "returned"
    /\ UNCHANGED <<store, clock, cooldown, creds, symbols, results, last,
                   prevAlert, lastAlert>>
    /\ UNCHANGED <<detectVars, rsiVars, concVars>>

Tick ==
    /\ clock < MaxClock
    /\ clock' = clock + 1
    /\ UNCHANGED <<store, orchVars, detectVars, rsiVars, concVars>>

----------------------------------------------------------------------------
NoReport == [EmptyReport EXCEPT !.kind = "none"]
NoFrame == [bars |-> None, last |-> QuietRow, prev |-> QuietRow]
Writers == {"w1", "w2"}

IdleOthers ==
    /\ frame = NoFrame
    /\ report = NoReport
    /\ series = <<>>
    /\ rsiOut = <<>>
    /\ wpc = [w \in Writers |-> "idle"]
    /\ wsym = [w \in Writers |-> ""]
    /\ wts = [w \in Writers |-> IsoFormat(Aware(0))]
    /\ wdata = [w \in Writers |-> Absent]
    /\ overlap = FALSE
    /\ seen = [symbol |-> "", val |-> FALSE, at |-> 0]

IdleOrch ==
    /\ cooldown \in 1..MaxCooldown
    /\ creds = TRUE
    /\ symbols = <<>>
    /\ results = <<>>
    /\ status = "idle"
    /\ last = NoLast

(* The alert file as earlier runs of the program leave it: missing, or an  *)
(* object of timestamps written by persist_alert                          *)
WrittenStores ==
    {Absent} \cup
    {Object(m) : m \in UNION {[D -> {IsoFormat(Aware(0))}] : D \in SUBSET Symbols}}

(* The alert file with content of every shape json.load can meet *)
AnyStores ==
    {Absent, Garbage, Scalar, Array({"A"}), Array(Symbols)} \cup
    {Object(m) : m \in UNION {[D -> {IsoFormat(Aware(0)), NotIso}]
                               : D \in SUBSET Symbols}}

RecordedAt(st, s) ==
    IF st.kind = "object" /\ s \in DOMAIN st.map /\ st.map[s].k = "iso"
    THEN st.map[s].wall ELSE None

Init ==
    /\ store \in WrittenStores
    /\ clock = 0
    /\ cooldown \in 1..MaxCooldown
    /\ creds \in BOOLEAN
    /\ symbols = <<>>
    /\ results = <<>>
    /\ status = "idle"
    /\ last = NoLast
    /\ prevAlert = [s \in Symbols |-> None]
    /\ lastAlert = [s \in Symbols |-> RecordedAt(store, s)]
    /\ IdleOthers

InitAny ==
    /\ store \in AnyStores
    /\ clock = 0
    /\ cooldown \in 1..MaxCooldown
    /\ creds \in BOOLEAN
    /\ symbols = <<>>
    /\ results = <<>>
    /\ status = "idle"
    /\ last = NoLast
    /\ prevAlert = [s \in Symbols |-> None]
    /\ lastAlert = [s \in Symbols |-> RecordedAt(store, s)]
    /\ IdleOthers

Next == StartCycle \/ ProcessSymbol \/ ReturnResults \/ Tick

Spec == Init /\ [][Next]_vars
SpecAnyStore == InitAny /\ [][Next]_vars

----------------------------------------------------------------------------
(* Claims about the check cycle *)

LastEntry == results[Len(results)]
Elapsed(now, ts) == (now - ts) * SecondsPerTick
SenderSucceeded == last.attempted /\ ~last.sendRaised /\ last.sendVal = TRUE

\* C1: in an iteration of run_check, persist_alert is called (and the
\* symbol's record becomes the current UTC time, nothing else changing) if
\* and only if a delivery was attempted and the sender returned True; when
\* the sender returns False or raises, the storage is exactly what it was
\* and the cooldown lookup of that symbol keeps answering "not recent".
C1_RecordOnlyOnSuccess ==
    last.symbol # "" =>
        /\ last.persistCalled <=> SenderSucceeded
        /\ last.persistCalled =>
              /\ store.kind = "object"
              /\ DOMAIN store.map = DOMAIN PersistLoad(last.storeBefore).map
                                        \cup {last.symbol}
              /\ store.map[last.symbol] = Iso(last.nowPersist, "utc")
              /\ \A s \in DOMAIN store.map \ {last.symbol} :
                    store.map[s] = last.storeBefore.map[s]
        /\ ~last.persistCalled => store = last.storeBefore
        /\ (last.attempted /\ ~SenderSucceeded) =>
              WasAlertSentRecent(store, last.symbol, cooldown, clock) = Ret(FALSE)

C1_Witness ==
    /\ last.attempted
    /\ last.sendRaised
    /\ ~last.persistCalled
    /\ lastAlert[last.symbol] # None
    /\ clock > last.nowCheck

\* C2: when detection yields signal=true and the cooldown lookup is true,
\* no delivery is attempted, the storage is not modified, and the result
\* entry of that symbol still reports signal=true.
C2_SuppressedStillReported ==
    (last.signal /\ last.lookup = "true") =>
        /\ ~last.attempted
        /\ ~last.persistCalled
        /\ store = last.storeBefore
        /\ LastEntry.symbol = last.symbol
        /\ LastEntry.kind = "report"
        /\ LastEntry.sig.signal = TRUE

C2_Witness ==
    /\ last.signal
    /\ last.lookup = "true"
    /\ status = "returned"

\* C3: two consecutive delivered alerts of a symbol (hence any two) are
\* recorded more than `cooldown` minutes apart.
C3_CooldownBetweenAlerts ==
    \A s \in Symbols :
        prevAlert[s] # None =>
            Elapsed(lastAlert[s], prevAlert[s]) > cooldown * SecondsPerMinute

C3_Witness ==
    /\ prevAlert["A"] # None
    /\ symbols = <<"A", "A">>
    /\ last.persistCalled

\* C5: the cooldown lookup answers true exactly when the storage holds a
\* record for the symbol and at most `minutes` minutes have elapsed since
\* it (true at exactly `minutes`, false beyond, false without a record or
\* without a file).
C5_RecentIffWithinCooldown ==
    last.lookup # "none" =>
        /\ last.lookup \in {"true", "false"}
        /\ last.lookup = "true" <=>
              /\ RecordedAt(last.storeBefore, last.symbol) # None
              /\ Elapsed(last.nowCheck, RecordedAt(last.storeBefore, last.symbol))
                    <= cooldown * SecondsPerMinute

C5_Witness ==
    /\ last.lookup = "true"
    /\ Elapsed(last.nowCheck, RecordedAt(last.storeBefore, last.symbol))
          = cooldown * SecondsPerMinute

\* C9: a series of fewer than 30 bars, or no series, gives the empty
\* result (and only such a series does); run_check then records an entry
\* for the symbol and goes on, without a cooldown lookup, a delivery or a
\* write of the storage.
C9_InsufficientData ==
    last.fetch = "ok" =>
        /\ last.detect = "empty" <=> (last.bars = None \/ last.bars < MinBars)
        /\ last.detect = "empty" =>
              /\ last.lookup = "none"
              /\ ~last.attempted
              /\ ~last.persistCalled
              /\ store = last.storeBefore
              /\ LastEntry = SigEntry(last.symbol, EmptyReport)
              /\ status \in {"running", "returned"}

C9_Witness ==
    /\ last.detect = "empty"
    /\ last.bars = MinBars - 1
    /\ Len(results) = 2
    /\ results[1].kind = "empty"

\* C4: run_check always returns one entry per listed symbol, in list
\* order; no exception escapes it, whatever the alert file holds.
C4_NoExceptionEscapes ==
    /\ status # "raised"
    /\ status = "returned" =>
          /\ Len(results) = Len(symbols)
          /\ \A k \in 1..Len(results) : results[k].symbol = symbols[k]

Malformed(st) ==
    \/ st.kind \in {"absent", "garbage", "scalar", "array"}
    \/ \E s \in DOMAIN st.map : st.map[s].k # "iso"

\* C6: on a missing, unparseable or malformed alert file the cooldown
\* lookup returns false for every symbol and never raises.
C6_FailOpen ==
    (last.lookup # "none" /\ Malformed(last.storeBefore)) => last.lookup = "false"

----------------------------------------------------------------------------
(* detect_momentum_signal called on any indicator frame *)

EmaValues == {NaN, F(1), F(2)}
CloseValues == {NaN, F(2), F(3)}
RsiValues == {NaN, F(RsiBurst), F(RsiBurst + 1)}
VolumePairs == {<<F(4), F(2)>>, <<F(3), F(2)>>, <<F(4), NaN>>}
AtrPairs == {<<F(7), F(5)>>, <<F(6), F(5)>>, <<F(7), NaN>>}

LastRows ==
    {BaseRow(e9, e21, rsi, c, vp[1], vp[2], ap[1], ap[2]) :
        e9 \in EmaValues, e21 \in EmaValues, rsi \in RsiValues,
        c \in CloseValues, vp \in VolumePairs, ap \in AtrPairs}

PrevRows ==
    {BaseRow(e9, e21, F(RsiBurst), F(2), F(3), F(2), F(6), F(5)) :
        e9 \in EmaValues, e21 \in EmaValues}

AllFrames == [bars : {MinBars - 1, MinBars}, last : LastRows, prev : PrevRows]

InitDetect ==
    /\ frame \in AllFrames
    /\ report = NoReport
    /\ store = Absent
    /\ clock = 0
    /\ IdleOrch
    /\ prevAlert = [s \in Symbols |-> None]
    /\ lastAlert = [s \in Symbols |-> None]
    /\ series = <<>>
    /\ rsiOut = <<>>
    /\ wpc = [w \in Writers |-> "idle"]
    /\ wsym = [w \in Writers |-> ""]
    /\ wts = [w \in Writers |-> IsoFormat(Aware(0))]
    /\ wdata = [w \in Writers |-> Absent]
    /\ overlap = FALSE
    /\ seen = [symbol |-> "", val |-> FALSE, at |-> 0]

Detect ==
    /\ report.kind = "none"
    /\ report' = DetectMomentumSignal(frame)
    /\ UNCHANGED <<frame, store, clock, orchVars, rsiVars, concVars>>

NextDetect == Detect

SpecDetect == InitDetect /\ [][NextDetect]_vars

Defined(S) == \A x \in S : ~x.nan

\* C8: on a frame of at least 30 rows detection returns a report, also
\* when signal is false; signal is true exactly when (ema_cross OR
\* price_above_emas) AND rsi5 > 55 AND vol_spike AND atr_spike on the last
\* bar, where a predicate over an undefined value is false.
C8_CompositeSignal ==
    (report.kind # "none" /\ frame.bars >= MinBars) =>
        LET l == frame.last
            p == frame.prev
            ema_cross ==
                /\ Defined({l.ema9, l.ema21, p.ema9, p.ema21})
                /\ l.ema9.v > l.ema21.v
                /\ p.ema9.v <= p.ema21.v
            price_above_emas ==
                /\ Defined({l.close, l.ema9, l.ema21})
                /\ l.close.v > l.ema9.v
                /\ l.close.v > l.ema21.v
            rsi_burst == Defined({l.rsi5}) /\ l.rsi5.v > RsiBurst
            vol_spike ==
                Defined({l.volume, l.vol_ma}) /\ 2 * l.volume.v > 3 * l.vol_ma.v
            atr_spike ==
                Defined({l.atr14, l.atr14_ma}) /\ 5 * l.atr14.v > 6 * l.atr14_ma.v
        IN  /\ report.kind = "report"
            /\ report.signal <=>
                  (ema_cross \/ price_above_emas) /\ rsi_burst /\ vol_spike /\ atr_spike
            /\ report.ema_cross <=> ema_cross
            /\ report.vol_spike <=> vol_spike
            /\ report.atr_spike <=> atr_spike

C8_Witness ==
    /\ report.kind = "report"
    /\ ~report.signal
    /\ frame.last.atr14_ma.nan
    /\ report.ema_cross
    /\ report.vol_spike
    /\ frame.last.rsi5 = F(RsiBurst + 1)

----------------------------------------------------------------------------
(* indicators.py rsi, in exact arithmetic.  The smoothed series of bar i   *)
(* is kept as its numerator over RsiLength^(i-2); up and down share the    *)
(* denominator, so their quotient and their being zero are exact.          *)

RECURSIVE Pow(_, _)
Pow(b, e) == IF e = 0 THEN 1 ELSE b * Pow(b, e - 1)

Max(a, b) == IF a > b THEN a ELSE b

(* series.diff() at bar i >= 2 *)
Delta(x, i) == x[i] - x[i - 1]
(* delta.clip(lower=0) and -1 * delta.clip(upper=0) *)
Up(x, i) == Max(Delta(x, i), 0)
Down(x, i) == Max(0 - Delta(x, i), 0)

(* ewm(alpha=1/length, adjust=False).mean(): bar 1 is NaN and skipped,    *)
(* bar 2 seeds, then y[i] = ((length-1)*y[i-1] + x[i]) / length            *)
RECURSIVE SmoothUp(_, _)
SmoothUp(x, i) ==
    IF i = 2 THEN Up(x, 2)
    ELSE (RsiLength - 1) * SmoothUp(x, i - 1) + Pow(RsiLength, i - 3) * Up(x, i)

RECURSIVE SmoothDown(_, _)
SmoothDown(x, i) ==
    IF i = 2 THEN Down(x, 2)
    ELSE (RsiLength - 1) * SmoothDown(x, i - 1) + Pow(RsiLength, i - 3) * Down(x, i)

(* Float division of two non-negative numbers: x/0 is inf, 0/0 is NaN *)
Quot(k, num, den) == [k |-> k, num |-> num, den |-> den]
FloatDiv(u, d) ==
    IF d = 0 THEN (IF u = 0 THEN Quot("nan", 0, 1) ELSE Quot("inf", 1, 0))
    ELSE Quot("fin", u, d)

(* 100 - (100 / (1 + rs)) *)
RsiOfRs(rs) ==
    CASE rs.k = "nan" -> Quot("nan", 0, 1)
      [] rs.k = "inf" -> Quot("fin", 100, 1)
      [] rs.k = "fin" -> Quot("fin", 100 * rs.num, rs.num + rs.den)

Rsi(x) ==
    [i \in 1..Len(x) |->
        IF i = 1 THEN Quot("nan", 0, 1)
        ELSE RsiOfRs(FloatDiv(SmoothUp(x, i), SmoothDown(x, i)))]

CloseSeries == UNION {[1..n -> 1..MaxPrice] : n \in 1..MaxLen}

InitRsi ==
    /\ series \in CloseSeries
    /\ rsiOut = <<>>
    /\ frame = NoFrame
    /\ report = NoReport
    /\ store = Absent
    /\ clock = 0
    /\ IdleOrch
    /\ prevAlert = [s \in Symbols |-> None]
    /\ lastAlert = [s \in Symbols |-> None]
    /\ wpc = [w \in Writers |-> "idle"]
    /\ wsym = [w \in Writers |-> ""]
    /\ wts = [w \in Writers |-> IsoFormat(Aware(0))]
    /\ wdata = [w \in Writers |-> Absent]
    /\ overlap = FALSE
    /\ seen = [symbol |-> "", val |-> FALSE, at |-> 0]

ComputeRsi ==
    /\ rsiOut = <<>>
    /\ rsiOut' = Rsi(series)
    /\ UNCHANGED <<series, store, clock, orchVars, detectVars, concVars>>

NextRsi == ComputeRsi

SpecRsi == InitRsi /\ [][NextRsi]_vars

\* C10: at every bar where the smoothed downward movement is 0, flat
\* series included, rsi is 100 and never undefined.
C10_ZeroLossIsHundred ==
    rsiOut # <<>> =>
        \A i \in 2..Len(series) :
            SmoothDown(series, i) = 0 =>
                /\ rsiOut[i].k = "fin"
                /\ rsiOut[i].num = 100 * rsiOut[i].den

----------------------------------------------------------------------------
(* Two persist_alert calls for distinct symbols and a was_alert_sent_recent *)
(* call, interleaved at their storage read and storage write steps.  "C"   *)
(* is a symbol recorded before the calls and written by neither.           *)

Recorded == "C"

ConcStores ==
    {Object(Put(m, Recorded, IsoFormat(Aware(0)))) :
        m \in UNION {[D -> {IsoFormat(Aware(0))}] : D \in SUBSET Symbols}}

InitConc ==
    /\ store \in ConcStores
    /\ clock = 0
    /\ IdleOrch
    /\ prevAlert = [s \in Symbols |-> None]
    /\ lastAlert = [s \in Symbols |-> None]
    /\ frame = NoFrame
    /\ report = NoReport
    /\ series = <<>>
    /\ rsiOut = <<>>
    /\ wpc = [w \in Writers |-> "idle"]
    /\ wsym \in {f \in [Writers -> Symbols] : f["w1"] # f["w2"]}
    /\ wts = [w \in Writers |-> IsoFormat(Aware(0))]
    /\ wdata = [w \in Writers |-> Absent]
    /\ overlap = FALSE
    /\ seen = [symbol |-> "", val |-> FALSE, at |-> 0]

(* persist_alert(symbol, now.isoformat()), lines 32-38: read the file *)
WRead(w) ==
    /\ wpc[w] = "idle"
    /\ wts' = [wts EXCEPT ![w] = IsoFormat(Aware(clock))]
    /\ wdata' = [wdata EXCEPT ![w] = PersistLoad(store)]
    /\ wpc' = [wpc EXCEPT ![w] = "loaded"]
    /\ overlap' = (overlap \/ \E o \in Writers \ {w} : wpc[o] = "loaded")
    /\ UNCHANGED <<store, clock, wsym, seen, orchVars, detectVars, rsiVars>>

(* persist_alert, lines 39-41: set the record and rewrite the file *)
WWrite(w) ==
    /\ wpc[w] = "loaded"
    /\ LET r == PersistStore(wdata[w], wsym[w], wts[w])
       IN  store' = IF r.raised THEN store ELSE r.val
    /\ wpc' = [wpc EXCEPT ![w] = "done"]
    /\ UNCHANGED <<clock, wsym, wts, wdata, overlap, seen,
                   orchVars, detectVars, rsiVars>>

(* was_alert_sent_recent(symbol, cooldown) between the writers' steps *)
RQuery ==
    /\ \E s \in Symbols \cup {Recorded} :
          seen' = [symbol |-> s, at |-> clock,
                   val |-> WasAlertSentRecent(store, s, cooldown, clock).val]
    /\ UNCHANGED <<store, clock, wpc, wsym, wts, wdata, overlap,
                   orchVars, detectVars, rsiVars>>

TickConc ==
    /\ clock < MaxClock
    /\ clock' = clock + 1
    /\ UNCHANGED <<store, orchVars, detectVars, rsiVars, concVars>>

NextConc == (\E w \in Writers : WRead(w)) \/ (\E w \in Writers : WWrite(w))
            \/ RQuery \/ TickConc

SpecConc == InitConc /\ [][NextConc]_vars

BothDone == \A w \in Writers : wpc[w] = "done"
HoldsRecordOf(w) ==
    /\ store.kind = "object"
    /\ wsym[w] \in DOMAIN store.map
    /\ store.map[wsym[w]] = wts[w]

\* C7 as stated: after two interleaved persist_alert calls for distinct
\* symbols have completed, the storage holds both writers' records, and a
\* concurrent lookup of the already recorded symbol sees its record.
C7_NoLostUpdate ==
    /\ BothDone => \A w \in Writers : HoldsRecordOf(w)
    /\ seen.symbol = Recorded =>
          (seen.val <=> Elapsed(seen.at, 0) <= cooldown * SecondsPerMinute)

\* C7 amended: the storage holds both writers' records when the two calls
\* did not overlap (neither read the file between the other's read and
\* write); in every interleaving the already recorded symbol keeps its
\* record and a concurrent lookup sees it.
C7_SerializedNoLostUpdate ==
    /\ (BothDone /\ ~overlap) => \A w \in Writers : HoldsRecordOf(w)
    /\ RecordedAt(store, Recorded) = 0
    /\ seen.symbol = Recorded =>
          (seen.val <=> Elapsed(seen.at, 0) <= cooldown * SecondsPerMinute)

C7_Witness ==
    /\ BothDone
    /\ ~overlap
    /\ wts["w1"] # wts["w2"]
    /\ seen.symbol = Recorded
    /\ seen.val

====
